---- MODULE Spec2Model ----
(***************************************************************************)
(* Model of main.py of gcp-budgets-control: a Cloud Function that handles  *)
(* Pub/Sub budget notifications, keeps a per-project ledger of costs per   *)
(* costIntervalStart in Cloud Firestore, and disables billing of the       *)
(* project once the sum of the ledger reaches the budget.                  *)
(*                                                                         *)
(* Every invocation of handle_budgets_notifications is a process.  Its     *)
(* steps are cut at the calls to the two external services and at the read *)
(* of the clock, the only points at which invocations observe each other:  *)
(*   HandleBudgetsNotifications     decode, field reads, getBillingInfo    *)
(*   StampAddedAt                   datetime.now() into addedAt            *)
(*   GetCostsPerIntervalStartsDict  Firestore get, update of the dict      *)
(*   PersistData                    Firestore batch commit                 *)
(*   HandleBillingDependingOnTotal  sum, comparison, updateBillingInfo     *)
(***************************************************************************)
EXTENDS Integers, Sequences, FiniteSets, TLC

(***************************************************************************)
(* Bounds of the model.                                                    *)
(***************************************************************************)
MaxInvocations == 3
MaxConcurrent == 2
MaxCost == 2

Invocations == 1..MaxInvocations
Projects == {"p1", "p2"}
Intervals == {"2024-01", "2024-02"}
Costs == 1..MaxCost
\* The budget is chosen so that totals below, equal to and above it occur.
Budgets == {MaxCost + 1}

(***************************************************************************)
(* Python dicts are functions from a finite set of keys.                   *)
(***************************************************************************)
EmptyDict == [k \in {} |-> 0]

DictSet(d, key, value) ==
    [k \in (DOMAIN d) \cup {key} |-> IF k = key THEN value ELSE d[k]]

RECURSIVE SumOver(_, _)
SumOver(keys, d) ==
    IF keys = {} THEN 0
    ELSE LET k == CHOOSE x \in keys : TRUE
         IN d[k] + SumOver(keys \ {k}, d)

\* A variant that totals one period only.
SumValuesOnePeriod(d) == IF DOMAIN d = {} THEN 0 ELSE d[CHOOSE k \in DOMAIN d : TRUE]

\* sum(costs_per_interval_starts_dict.values())
SumValues(d) == SumOver(DOMAIN d, d)

(***************************************************************************)
(* The Pub/Sub event.  data['data'] is base64 of UTF-8 JSON text; the      *)
(* model keeps whether the bytes decode and, if so, the JSON object.       *)
(***************************************************************************)
RequiredFields == {"budgetDisplayName", "budgetAmount", "costAmount", "costIntervalStart"}

Notification(p, b, c, s) ==
    [budgetDisplayName |-> p, budgetAmount |-> b, costAmount |-> c, costIntervalStart |-> s]

WellFormedNotifications ==
    {Notification(p, b, c, s) : p \in Projects, b \in Budgets, c \in Costs, s \in Intervals}

DictWithout(d, key) == [k \in (DOMAIN d) \ {key} |-> d[k]]

\* One notification with each required field removed in turn.
SampleNotification == Notification("p1", MaxCost + 1, MaxCost, "2024-01")
IncompleteNotifications == {DictWithout(SampleNotification, f) : f \in RequiredFields}

Events ==
    {[decodable |-> TRUE, json |-> n] : n \in WellFormedNotifications \cup IncompleteNotifications}
    \cup {[decodable |-> FALSE, json |-> EmptyDict]}

\* json.loads(base64.b64decode(data['data']).decode('utf-8'))
JsonLoadsB64(event) ==
    IF event.decodable
    THEN [raised |-> FALSE, value |-> event.json]
    ELSE [raised |-> TRUE, value |-> EmptyDict]

\* A variant without the subscripts of the log statement of lines 30-32.
FirstMissingKeyNoLog(d) ==
    IF "budgetDisplayName" \notin DOMAIN d THEN "budgetDisplayName"
    ELSE IF "budgetAmount" \notin DOMAIN d THEN "budgetAmount"
    ELSE ""

\* The first required key that the handler subscripts and the dict lacks, in
\* the order of the subscripts of lines 23, 26, 31, 32; "" when none is missing.
FirstMissingKey(d) ==
    IF "budgetDisplayName" \notin DOMAIN d THEN "budgetDisplayName"
    ELSE IF "budgetAmount" \notin DOMAIN d THEN "budgetAmount"
    ELSE IF "costAmount" \notin DOMAIN d THEN "costAmount"
    ELSE IF "costIntervalStart" \notin DOMAIN d THEN "costIntervalStart"
    ELSE ""

(***************************************************************************)
(* Collection naming.                                                      *)
(***************************************************************************)
\* The process environment: COLLECTION_NAME_PREFIX is not set.
Environ == [k \in {} |-> ""]

OsEnvironGet(key, default) == IF key \in DOMAIN Environ THEN Environ[key] ELSE default

\* A variant that leaves the project id out of the name.
GetCollectionNameShared(budget_project_id) ==
    OsEnvironGet("COLLECTION_NAME_PREFIX", "budget-notifications")

GetCollectionName(budget_project_id) ==
    OsEnvironGet("COLLECTION_NAME_PREFIX", "budget-notifications") \o "-" \o budget_project_id

Collections == {GetCollectionName(p) : p \in Projects}

(***************************************************************************)
(* Cloud Billing: the ProjectBillingInfo resource of a project, as the     *)
(* JSON object the API returns.  Fields that are unset are left out.       *)
(***************************************************************************)
BillingLinked == [billingAccountName |-> "billingAccounts/A", billingEnabled |-> TRUE]
\* linked to a closed billing account
BillingLinkedClosed == [billingAccountName |-> "billingAccounts/A", billingEnabled |-> FALSE]
\* no billing account: neither billingAccountName nor billingEnabled is present
BillingUnlinked == [name |-> "billingInfo"]
BillingInfos == {BillingLinked, BillingLinkedClosed, BillingUnlinked, EmptyDict}

\* A variant that takes an absent billingEnabled field for enabled.
IsBillingEnabledDefaultTrue(billing_info) ==
    IF billing_info = EmptyDict THEN FALSE
    ELSE IF "billingEnabled" \notin DOMAIN billing_info THEN TRUE
    ELSE billing_info.billingEnabled

\* A variant that tests the presence of the field and not its value.
IsBillingEnabledPresence(billing_info) == "billingEnabled" \in DOMAIN billing_info

\* The decision of __is_billing_enabled on the response of getBillingInfo.
IsBillingEnabled(billing_info) ==
    IF billing_info = EmptyDict \/ "billingEnabled" \notin DOMAIN billing_info
    THEN FALSE
    ELSE billing_info.billingEnabled

(***************************************************************************)
(* Exceptions that leave handle_budgets_notifications.                     *)
(***************************************************************************)
NoError == "none"
DecodeError == "ValueError: payload cannot be decoded"
KeyErrorOf(key) == "KeyError: " \o key
BillingAlreadyDisabled == "RuntimeError: Billing already in disabled state"
StoreReadError == "GoogleAPICallError: document get failed"
StoreCommitError == "GoogleAPICallError: batch commit failed"
AssertionError == "AssertionError"
MalformedErrors == {DecodeError} \cup {KeyErrorOf(f) : f \in RequiredFields}

(***************************************************************************)
(* State.                                                                  *)
(***************************************************************************)
VARIABLES
    billing,        \* project id -> ProjectBillingInfo held by Cloud Billing
    ledgerDoc,      \* collection -> document 0-costs-per-interval-starts
    notificationDocs, \* collection -> documents with auto-generated ids, in creation order
    pc,             \* invocation -> position in handle_budgets_notifications
    notification,   \* invocation -> pubsub_budget_notification_data
    costsDict,      \* invocation -> costs_per_interval_starts_dict
    total,          \* invocation -> total
    error,          \* invocation -> exception that ended the invocation
    disableCalls,   \* invocation -> number of updateBillingInfo calls it made
    lateCommits     \* history: invocations whose commit found billing not enabled

vars == <<billing, ledgerDoc, notificationDocs, pc, notification, costsDict, total, error,
          disableCalls, lateCommits>>

store == <<ledgerDoc, notificationDocs>>

\* A document that does not exist; to_dict() of its snapshot is None.
NoDocument == [exists |-> FALSE, data |-> EmptyDict]

Init ==
    /\ billing \in [Projects -> BillingInfos]
    /\ ledgerDoc = [c \in Collections |-> NoDocument]
    /\ notificationDocs = [c \in Collections |-> <<>>]
    /\ pc = [i \in Invocations |-> "idle"]
    /\ notification = [i \in Invocations |-> EmptyDict]
    /\ costsDict = [i \in Invocations |-> EmptyDict]
    /\ total = [i \in Invocations |-> 0]
    /\ error = [i \in Invocations |-> NoError]
    /\ disableCalls = [i \in Invocations |-> 0]
    /\ lateCommits = {}

Ended == {"done", "failed"}
InProgress == {"checked", "stamped", "fetched", "persisted"}

\* Invocations are numbered in the order in which their events arrive; the
\* platform runs at most MaxConcurrent instances of the function at a time.
NextToArrive(i) ==
    /\ pc[i] = "idle"
    /\ \A j \in Invocations : j < i => pc[j] # "idle"
    /\ Cardinality({j \in Invocations : pc[j] \in InProgress}) < MaxConcurrent

\* datetime.now(): the clock reading, counted in events that have arrived.
Now == Cardinality({i \in Invocations : pc[i] # "idle"})

\* datetime.isoformat(): the reading as a string.
IsoFormat(t) == ToString(t)

Raise(i, exc) ==
    /\ pc' = [pc EXCEPT ![i] = "failed"]
    /\ error' = [error EXCEPT ![i] = exc]

\* A variant that returns silently when billing is not enabled.
HandleBudgetsNotificationsNoOp(i, event) ==
    /\ NextToArrive(i)
    /\ LET decoded == JsonLoadsB64(event)
           missing == FirstMissingKey(decoded.value)
       IN IF decoded.raised
          THEN /\ Raise(i, DecodeError)
               /\ UNCHANGED notification
          ELSE IF missing # ""
          THEN /\ Raise(i, KeyErrorOf(missing))
               /\ notification' = [notification EXCEPT ![i] = decoded.value]
          ELSE /\ notification' = [notification EXCEPT ![i] = decoded.value]
               /\ pc' = [pc EXCEPT ![i] =
                      IF IsBillingEnabled(billing[decoded.value.budgetDisplayName])
                      THEN "checked" ELSE "done"]
               /\ UNCHANGED error
    /\ UNCHANGED <<billing, ledgerDoc, notificationDocs, costsDict, total, disableCalls,
                   lateCommits>>

(***************************************************************************)
(* handle_budgets_notifications, lines 18-42: decode the payload, read the *)
(* required fields, derive the collection name, ask Cloud Billing.         *)
(***************************************************************************)
HandleBudgetsNotifications(i, event) ==
    /\ NextToArrive(i)
    /\ LET decoded == JsonLoadsB64(event)
           missing == FirstMissingKey(decoded.value)
       IN IF decoded.raised
          THEN /\ Raise(i, DecodeError)
               /\ UNCHANGED notification
          ELSE IF missing # ""
          THEN /\ Raise(i, KeyErrorOf(missing))
               /\ notification' = [notification EXCEPT ![i] = decoded.value]
          ELSE /\ notification' = [notification EXCEPT ![i] = decoded.value]
               /\ IF ~IsBillingEnabled(billing[decoded.value.budgetDisplayName])
                  THEN Raise(i, BillingAlreadyDisabled)
                  ELSE /\ pc' = [pc EXCEPT ![i] = "checked"]
                       /\ UNCHANGED error
    /\ UNCHANGED <<billing, ledgerDoc, notificationDocs, costsDict, total, disableCalls,
                   lateCommits>>

(***************************************************************************)
(* __get_costs_per_interval_starts_dict: stamp addedAt with the clock,     *)
(* then read the ledger document and insert or overwrite the entry of the  *)
(* notification's interval.  The clock is read before the Firestore get is *)
(* sent, so other invocations may arrive and commit between the two.       *)
(***************************************************************************)
CollectionOf(i) == GetCollectionName(notification[i].budgetDisplayName)

\* DocumentSnapshot.to_dict(): None for a document that does not exist.
ToDict(snapshot) ==
    IF snapshot.exists
    THEN [isNone |-> FALSE, dict |-> snapshot.data]
    ELSE [isNone |-> TRUE, dict |-> EmptyDict]

\* Python truth value of the result of to_dict(): None and {} are false.
Truthy(value) == ~value.isNone /\ DOMAIN value.dict # {}

\* A variant that adds the cost to the stored one instead of overwriting it.
UpdatedCostsDictCumulative(value, budget_notification_data) ==
    IF Truthy(value) /\ budget_notification_data.costIntervalStart \in DOMAIN value.dict
    THEN DictSet(value.dict, budget_notification_data.costIntervalStart,
                 value.dict[budget_notification_data.costIntervalStart]
                     + budget_notification_data.costAmount)
    ELSE IF Truthy(value)
    THEN DictSet(value.dict, budget_notification_data.costIntervalStart,
                 budget_notification_data.costAmount)
    ELSE [k \in {budget_notification_data.costIntervalStart} |->
              budget_notification_data.costAmount]

UpdatedCostsDict(value, budget_notification_data) ==
    IF Truthy(value)
    THEN DictSet(value.dict, budget_notification_data.costIntervalStart,
                 budget_notification_data.costAmount)
    ELSE [k \in {budget_notification_data.costIntervalStart} |->
              budget_notification_data.costAmount]

\* Line 111: budget_notification_data['addedAt'] = datetime.now().isoformat().
StampAddedAt(i) ==
    /\ pc[i] = "checked"
    /\ notification' = [notification EXCEPT ![i] = DictSet(@, "addedAt", IsoFormat(Now))]
    /\ pc' = [pc EXCEPT ![i] = "stamped"]
    /\ UNCHANGED <<billing, ledgerDoc, notificationDocs, costsDict, total, error,
                   disableCalls, lateCommits>>

\* Lines 112-119: the Firestore get and the update of the dict it returned.
GetCostsPerIntervalStartsDict(i) ==
    /\ pc[i] = "stamped"
    /\ \/ /\ costsDict' = [costsDict EXCEPT ![i] =
                  UpdatedCostsDict(ToDict(ledgerDoc[CollectionOf(i)]), notification[i])]
          /\ pc' = [pc EXCEPT ![i] = "fetched"]
          /\ UNCHANGED error
       \/ /\ Raise(i, StoreReadError)
          /\ UNCHANGED costsDict
    /\ UNCHANGED <<billing, ledgerDoc, notificationDocs, notification, total, disableCalls,
                   lateCommits>>

(***************************************************************************)
(* __persist_data: one Firestore write batch that sets the ledger document *)
(* and a new notification document.  commit() applies both or raises.      *)
(***************************************************************************)
\* A variant with two separate writes, the second of which may fail.
BatchCommitUnbatched(collection_name, costs_per_interval_starts_dict, budget_notification_data) ==
    /\ ledgerDoc' = [ledgerDoc EXCEPT ![collection_name] =
                        [exists |-> TRUE, data |-> costs_per_interval_starts_dict]]
    /\ \/ notificationDocs' = [notificationDocs EXCEPT ![collection_name] =
                        Append(@, budget_notification_data)]
       \/ UNCHANGED notificationDocs

\* A variant that writes the notification to one document of a fixed name.
BatchCommitFixedDocument(collection_name, costs_per_interval_starts_dict, budget_notification_data) ==
    /\ ledgerDoc' = [ledgerDoc EXCEPT ![collection_name] =
                        [exists |-> TRUE, data |-> costs_per_interval_starts_dict]]
    /\ notificationDocs' = [notificationDocs EXCEPT ![collection_name] =
                        <<budget_notification_data>>]

\* A variant that sets the ledger document with merge=True.
BatchCommitMerge(collection_name, costs_per_interval_starts_dict, budget_notification_data) ==
    /\ ledgerDoc' = [ledgerDoc EXCEPT ![collection_name] =
                        [exists |-> TRUE,
                         data |-> [k \in (DOMAIN @.data) \cup (DOMAIN costs_per_interval_starts_dict) |->
                                      IF k \in DOMAIN costs_per_interval_starts_dict
                                      THEN costs_per_interval_starts_dict[k]
                                      ELSE @.data[k]]]]
    /\ notificationDocs' = [notificationDocs EXCEPT ![collection_name] =
                        Append(@, budget_notification_data)]

BatchCommit(collection_name, costs_per_interval_starts_dict, budget_notification_data) ==
    /\ ledgerDoc' = [ledgerDoc EXCEPT ![collection_name] =
                        [exists |-> TRUE, data |-> costs_per_interval_starts_dict]]
    /\ notificationDocs' = [notificationDocs EXCEPT ![collection_name] =
                        Append(@, budget_notification_data)]

\* History of the commits made while the project's billing account was not
\* linked and enabled; no statement of the program reads it.
RecordCommit(i) ==
    lateCommits' = IF billing[notification[i].budgetDisplayName] = BillingLinked
                   THEN lateCommits
                   ELSE lateCommits \cup {i}

\* A variant that catches the failure of the commit and goes on.
PersistDataSwallow(i) ==
    /\ pc[i] = "fetched"
    /\ \/ /\ BatchCommit(CollectionOf(i), costsDict[i], notification[i])
          /\ RecordCommit(i)
       \/ UNCHANGED <<ledgerDoc, notificationDocs, lateCommits>>
    /\ pc' = [pc EXCEPT ![i] = "persisted"]
    /\ UNCHANGED <<billing, notification, costsDict, total, error, disableCalls>>

PersistData(i) ==
    /\ pc[i] = "fetched"
    /\ \/ /\ BatchCommit(CollectionOf(i), costsDict[i], notification[i])
          /\ RecordCommit(i)
          /\ pc' = [pc EXCEPT ![i] = "persisted"]
          /\ UNCHANGED error
       \/ /\ Raise(i, StoreCommitError)
          /\ UNCHANGED <<ledgerDoc, notificationDocs, lateCommits>>
    /\ UNCHANGED <<billing, notification, costsDict, total, disableCalls>>

(***************************************************************************)
(* Lines 52-58 and __handle_billing_depending_on_total: sum the ledger,    *)
(* compare with the budget, disable billing unless total < budget.         *)
(***************************************************************************)
\* The ProjectBillingInfo after updateBillingInfo with billingAccountName '':
\* the account is unlinked, or the link is still there.
UpdateBillingInfoOutcomes(project_id) == {BillingUnlinked, billing[project_id]}

\* A variant without the assert on the response.
DisableBillingForProjectNoAssert(i, project_id) ==
    \E response \in UpdateBillingInfoOutcomes(project_id) :
        /\ billing' = [billing EXCEPT ![project_id] = response]
        /\ disableCalls' = [disableCalls EXCEPT ![i] = @ + 1]
        /\ pc' = [pc EXCEPT ![i] = "done"]
        /\ UNCHANGED error

\* __disable_billing_for_project: the call and the assert on its response.
DisableBillingForProject(i, project_id) ==
    \E response \in UpdateBillingInfoOutcomes(project_id) :
        /\ billing' = [billing EXCEPT ![project_id] = response]
        /\ disableCalls' = [disableCalls EXCEPT ![i] = @ + 1]
        /\ IF "billingAccountName" \notin DOMAIN response
           THEN /\ pc' = [pc EXCEPT ![i] = "done"]
                /\ UNCHANGED error
           ELSE Raise(i, AssertionError)

\* A variant with the operands of the comparison swapped.
ShallDisableSwapped(budget, tot) == ~(budget < tot)

\* A variant that disables only strictly above the budget.
ShallDisableStrict(budget, tot) == tot > budget

\* The comparison of __handle_billing_depending_on_total.
ShallDisable(budget, tot) == ~(tot < budget)

\* A variant that deletes the ledger document when the disable call fails.
HandleBillingDependingOnTotalRollback(i) ==
    /\ pc[i] = "persisted"
    /\ LET tot == SumValues(costsDict[i])
       IN /\ total' = [total EXCEPT ![i] = tot]
          /\ IF ShallDisable(notification[i].budgetAmount, tot)
             THEN /\ DisableBillingForProject(i, notification[i].budgetDisplayName)
                  /\ IF pc'[i] = "failed"
                     THEN ledgerDoc' = [ledgerDoc EXCEPT ![CollectionOf(i)] = NoDocument]
                     ELSE UNCHANGED ledgerDoc
             ELSE /\ pc' = [pc EXCEPT ![i] = "done"]
                  /\ UNCHANGED <<billing, error, disableCalls, ledgerDoc>>
    /\ UNCHANGED <<notificationDocs, notification, costsDict, lateCommits>>

HandleBillingDependingOnTotal(i) ==
    /\ pc[i] = "persisted"
    /\ LET tot == SumValues(costsDict[i])
       IN /\ total' = [total EXCEPT ![i] = tot]
          /\ IF ShallDisable(notification[i].budgetAmount, tot)
             THEN DisableBillingForProject(i, notification[i].budgetDisplayName)
             ELSE /\ pc' = [pc EXCEPT ![i] = "done"]
                  /\ UNCHANGED <<billing, error, disableCalls>>
    /\ UNCHANGED <<ledgerDoc, notificationDocs, notification, costsDict, lateCommits>>

(***************************************************************************)
(* Specifications.  Spec: invocations run concurrently.  SeqSpec: an event *)
(* is delivered only when no other invocation is in progress.              *)
(***************************************************************************)
Next ==
    \E i \in Invocations :
        \/ \E event \in Events : HandleBudgetsNotifications(i, event)
        \/ StampAddedAt(i)
        \/ GetCostsPerIntervalStartsDict(i)
        \/ PersistData(i)
        \/ HandleBillingDependingOnTotal(i)

Spec == Init /\ [][Next]_vars

NoneInProgress == \A j \in Invocations : pc[j] \notin InProgress

SeqHandleBudgetsNotifications(i, event) ==
    /\ NoneInProgress
    /\ HandleBudgetsNotifications(i, event)

SeqNext ==
    \E i \in Invocations :
        \/ \E event \in Events : SeqHandleBudgetsNotifications(i, event)
        \/ StampAddedAt(i)
        \/ GetCostsPerIntervalStartsDict(i)
        \/ PersistData(i)
        \/ HandleBillingDependingOnTotal(i)

SeqSpec == Init /\ [][SeqNext]_vars

TypeOK ==
    /\ billing \in [Projects -> BillingInfos]
    /\ pc \in [Invocations -> {"idle"} \cup InProgress \cup Ended]
    /\ \A i \in Invocations : total[i] \in Nat /\ disableCalls[i] \in 0..1
    /\ \A c \in Collections : ledgerDoc[c].exists \in BOOLEAN

(***************************************************************************)
(* Properties.                                                             *)
(***************************************************************************)
HasPersisted(i) ==
    \/ pc[i] \in {"persisted", "done"}
    \/ pc[i] = "failed" /\ error[i] = AssertionError

HasDecided(i) ==
    \/ pc[i] = "done"
    \/ pc[i] = "failed" /\ error[i] = AssertionError

IsWellFormed(n) == RequiredFields \subseteq DOMAIN n

\* The intervals of a sequence of notification documents, and the cost of the
\* most recent document of an interval.
IntervalsSeen(docs) == {docs[k].costIntervalStart : k \in DOMAIN docs}

LatestCost(docs, s) ==
    LET last == CHOOSE k \in DOMAIN docs :
                    /\ docs[k].costIntervalStart = s
                    /\ \A m \in DOMAIN docs : docs[m].costIntervalStart = s => m <= k
    IN docs[last].costAmount

LastWriteWins(docs) == [s \in IntervalsSeen(docs) |-> LatestCost(docs, s)]

\* C1: when notifications of a project are handled one after another, the
\* stored ledger has exactly one entry per costIntervalStart persisted so far,
\* holding the costAmount of the most recent notification of that interval
\* (overwritten, not added up); the entries of the other intervals are kept.
C1_LedgerIsLastWriteWins ==
    \A c \in Collections :
        IF notificationDocs[c] = <<>>
        THEN ~ledgerDoc[c].exists
        ELSE /\ ledgerDoc[c].exists
             /\ ledgerDoc[c].data = LastWriteWins(notificationDocs[c])

\* Three notifications of one project: interval A, interval B, interval A again
\* with another cost.  A holds the later cost and B is kept.
C1_Witness ==
    \E c \in Collections :
        LET docs == notificationDocs[c]
        IN /\ Len(docs) = 3
           /\ docs[1].costIntervalStart = docs[3].costIntervalStart
           /\ docs[1].costAmount # docs[3].costAmount
           /\ docs[2].costIntervalStart # docs[1].costIntervalStart
           /\ ledgerDoc[c].data[docs[1].costIntervalStart] = docs[3].costAmount
           /\ ledgerDoc[c].data[docs[2].costIntervalStart] = docs[2].costAmount

\* The documents of a collection up to the k-th.
Recorded(docs, k) == SubSeq(docs, 1, k)

\* The ledger document of collection c is the fold of its notification
\* documents: no entry of it was lost.
LedgerIsComplete(c) ==
    IF notificationDocs[c] = <<>>
    THEN ~ledgerDoc[c].exists
    ELSE ledgerDoc[c].exists /\ ledgerDoc[c].data = LastWriteWins(notificationDocs[c])

\* The dict of invocation i is the stored ledger with the entry of i written.
ReadIsCurrent(i) ==
    LET stored == ledgerDoc[CollectionOf(i)].data
        own == notification[i].costIntervalStart
    IN /\ DOMAIN costsDict[i] = DOMAIN stored \cup {own}
       /\ \A s \in DOMAIN stored \ {own} : costsDict[i][s] = stored[s]

\* The step in which invocation i commits its batch.
Commits(i) == pc[i] = "fetched" /\ pc'[i] = "persisted"

\* The step in which invocation i sums its dict and compares.
Decides(i) == pc[i] = "persisted" /\ pc'[i] # "persisted"

\* C2 as stated: the total of an invocation that has compared is the sum of the
\* latest cost of every interval recorded for the project up to and including
\* its own notification document.
C2_TotalIsSumOfAllRecorded ==
    \A i \in Invocations :
        HasDecided(i) =>
            \E k \in DOMAIN notificationDocs[CollectionOf(i)] :
                LET docs == Recorded(notificationDocs[CollectionOf(i)], k)
                IN /\ docs[k] = notification[i]
                   /\ total[i] = SumOver(IntervalsSeen(docs), LastWriteWins(docs))

\* C2: the total compared with the budget is the sum over every entry of the
\* ledger document the invocation committed, not only the current interval:
\* the dict it built from the ledger it read, which holds its own cost for its
\* interval and, for every other interval, a cost recorded before.  The
\* committed document is that dict, and the dict does not change between the
\* read and the comparison.  When the stored ledger is complete and has not
\* changed since the invocation read it, the sum is the sum of the latest cost
\* of every interval recorded for the project, its own included.
C2_TotalIsSumOfCommittedLedger ==
    [][\A i \in Invocations :
          /\ Decides(i) => total'[i] = SumOver(DOMAIN costsDict[i], costsDict[i])
          /\ pc[i] \in {"fetched", "persisted"} => costsDict'[i] = costsDict[i]
          /\ Commits(i) =>
                 LET c == CollectionOf(i)
                     docs == notificationDocs[c]
                     own == notification[i].costIntervalStart
                 IN /\ ledgerDoc'[c].data = costsDict[i]
                    /\ costsDict[i][own] = notification[i].costAmount
                    /\ \A s \in DOMAIN costsDict[i] \ {own} :
                           \E k \in DOMAIN docs :
                               /\ docs[k].costIntervalStart = s
                               /\ docs[k].costAmount = costsDict[i][s]
                    /\ (LedgerIsComplete(c) /\ ReadIsCurrent(i)) =>
                           SumOver(DOMAIN costsDict[i], costsDict[i])
                               = SumOver(IntervalsSeen(notificationDocs'[c]),
                                         LastWriteWins(notificationDocs'[c]))]_vars

\* Two invocations of one project overlapped and the later committer compared
\* a total without the interval the other had recorded; a third invocation
\* then compared a total over two intervals, of which it carries one.
C2_Witness ==
    \E i, j \in Invocations :
        /\ HasDecided(i) /\ HasDecided(j) /\ i # j
        /\ CollectionOf(i) = CollectionOf(j)
        /\ \E k, m \in DOMAIN notificationDocs[CollectionOf(j)] :
               LET docs == notificationDocs[CollectionOf(j)]
               IN /\ k < m
                  /\ docs[m] = notification[j]
                  /\ docs[k].costIntervalStart \notin DOMAIN costsDict[j]
                  /\ total[j] = notification[j].costAmount
        /\ Cardinality(DOMAIN costsDict[i]) = 2
        /\ total[i] = SumOver(DOMAIN costsDict[i], costsDict[i])
        /\ total[i] > notification[i].costAmount

\* C3: the step that compares a total strictly below the budget makes no
\* updateBillingInfo call, leaves the billing of every project as it was and
\* ends the invocation normally.
C3_BelowBudgetNeverDisables ==
    [][\A i \in Invocations :
          (pc[i] = "persisted" /\ pc'[i] # "persisted"
              /\ total'[i] < notification[i].budgetAmount) =>
              /\ billing' = billing
              /\ disableCalls'[i] = 0
              /\ pc'[i] = "done"
              /\ error'[i] = NoError]_vars

C3_Witness ==
    \E i \in Invocations :
        /\ pc[i] = "done"
        /\ total[i] < notification[i].budgetAmount
        /\ disableCalls[i] = 0
        /\ billing[notification[i].budgetDisplayName] = BillingLinked

\* C4: an invocation that passed the billing check, persisted and compared a
\* total at or above the budget (equality included) has called
\* updateBillingInfo exactly once.
C4_AtOrAboveBudgetDisablesOnce ==
    \A i \in Invocations :
        (HasDecided(i) /\ total[i] >= notification[i].budgetAmount) => disableCalls[i] = 1

\* The equality case: total = budgetAmount, one call, billing unlinked.
C4_Witness ==
    \E i \in Invocations :
        /\ pc[i] = "done"
        /\ total[i] = notification[i].budgetAmount
        /\ disableCalls[i] = 1
        /\ billing[notification[i].budgetDisplayName] = BillingUnlinked

\* The billing info confirms billing enabled: the field is there and is true.
ConfirmsEnabled(info) ==
    IF "billingEnabled" \in DOMAIN info THEN info.billingEnabled = TRUE ELSE FALSE

\* The step in which invocation i receives its event.
Arrives(i) == pc[i] = "idle" /\ pc'[i] # "idle"

\* An invocation that has ended takes no further step.
EndedStays(i) ==
    pc[i] \in Ended =>
        /\ pc'[i] = pc[i] /\ error'[i] = error[i] /\ disableCalls'[i] = disableCalls[i]
        /\ notification'[i] = notification[i]

\* C5: when the billing info read at the start of an invocation does not
\* confirm billing enabled, the invocation ends in that step with the error
\* 'Billing already in disabled state'; the ledger documents, the notification
\* documents and the billing infos are as before and no updateBillingInfo call
\* is made.
C5_NotEnabledNoSideEffect ==
    [][\A i \in Invocations :
          /\ (Arrives(i) /\ IsWellFormed(notification'[i])
                 /\ ~ConfirmsEnabled(billing[notification'[i].budgetDisplayName])) =>
                 /\ pc'[i] = "failed"
                 /\ error'[i] = BillingAlreadyDisabled
                 /\ ledgerDoc' = ledgerDoc
                 /\ notificationDocs' = notificationDocs
                 /\ billing' = billing
                 /\ disableCalls' = disableCalls
          /\ EndedStays(i)]_vars

\* A notification rejected after an earlier one disabled billing of the
\* project: the ledger and the notification document of the earlier one stay.
C5_Witness ==
    \E i \in Invocations :
        /\ pc[i] = "failed"
        /\ error[i] = BillingAlreadyDisabled
        /\ disableCalls[i] = 0
        /\ "addedAt" \notin DOMAIN notification[i]
        /\ billing[notification[i].budgetDisplayName] = BillingUnlinked
        /\ ledgerDoc[CollectionOf(i)].exists
        /\ Len(notificationDocs[CollectionOf(i)]) = 2

\* C6: in every state, also after a failed commit and between the steps of
\* concurrent invocations, a collection holds a ledger document exactly if it
\* holds a notification document, and the ledger carries the entry of the most
\* recently added notification document: the two writes of a persist are
\* visible together or not at all.
C6_PersistIsAtomic ==
    \A c \in Collections :
        LET docs == notificationDocs[c]
        IN /\ ledgerDoc[c].exists <=> docs # <<>>
           /\ docs # <<>> =>
                 /\ docs[Len(docs)].costIntervalStart \in DOMAIN ledgerDoc[c].data
                 /\ ledgerDoc[c].data[docs[Len(docs)].costIntervalStart]
                        = docs[Len(docs)].costAmount

\* A failed commit next to a successful one of another invocation for the same
\* project: only the successful one shows, with both of its writes.
C6_Witness ==
    \E i, j \in Invocations :
        /\ pc[i] = "failed" /\ error[i] = StoreCommitError
        /\ HasPersisted(j)
        /\ CollectionOf(i) = CollectionOf(j)
        /\ notificationDocs[CollectionOf(i)] = <<notification[j]>>
        /\ ledgerDoc[CollectionOf(i)].data = costsDict[j]
        /\ costsDict[i] # costsDict[j]

\* C7: an event whose payload does not decode or lacks a required field ends
\* the invocation in its first step with a decode error or a KeyError; no
\* ledger document, no notification document and no billing info changes and
\* no updateBillingInfo call is made.
C7_MalformedNoSideEffect ==
    [][\A i \in Invocations :
          /\ (Arrives(i) /\ ~IsWellFormed(notification'[i])) =>
                 /\ pc'[i] = "failed"
                 /\ error'[i] \in MalformedErrors
                 /\ ledgerDoc' = ledgerDoc
                 /\ notificationDocs' = notificationDocs
                 /\ billing' = billing
                 /\ disableCalls' = disableCalls
          /\ EndedStays(i)]_vars

\* A payload without costIntervalStart and an undecodable payload, both
\* rejected while the project has billing enabled and a ledger.
C7_Witness ==
    \E i, j \in Invocations :
        /\ pc[i] = "failed" /\ error[i] = KeyErrorOf("costIntervalStart")
        /\ pc[j] = "failed" /\ error[j] = DecodeError
        /\ billing[notification[i].budgetDisplayName] = BillingLinked
        /\ ledgerDoc[CollectionOf(i)].exists
        /\ disableCalls[i] = 0 /\ disableCalls[j] = 0

\* The notification as received, without the stamp of the handler.
AsReceived(n) == DictWithout(n, "addedAt")

IsRecorded(i) ==
    \E k \in DOMAIN notificationDocs[CollectionOf(i)] :
        AsReceived(notificationDocs[CollectionOf(i)][k]) = AsReceived(notification[i])

\* C8 as stated: every BudgetNotification received by an invocation that has
\* ended is a document of the project's collection.
C8_EveryReceivedIsRecorded ==
    \A i \in Invocations :
        (pc[i] \in Ended /\ IsWellFormed(notification[i])) => IsRecorded(i)

\* C8: every step leaves the notification documents of every collection as
\* they are or adds exactly one at the end; no document is changed or removed.
\* A collection gains a document exactly in the step in which an invocation for
\* its project commits, and the document is that invocation's notification
\* with addedAt stamped.  An invocation that ends at the billing check, at the
\* ledger read or at the commit adds none.
C8_AppendOnlyOnePerPersist ==
    [][/\ \A c \in Collections :
             \/ /\ notificationDocs'[c] = notificationDocs[c]
                /\ ~\E i \in Invocations : Commits(i) /\ CollectionOf(i) = c
             \/ \E i \in Invocations :
                   /\ Commits(i) /\ CollectionOf(i) = c
                   /\ "addedAt" \in DOMAIN notification[i]
                   /\ notificationDocs'[c] = Append(notificationDocs[c], notification[i])
       /\ \A i \in Invocations :
             (pc[i] \notin Ended /\ pc'[i] = "failed") =>
                 notificationDocs' = notificationDocs]_vars

\* Three documents in one collection, one per persisted notification.
C8_Witness ==
    \E c \in Collections :
        /\ Len(notificationDocs[c]) = 3
        /\ \A i \in Invocations :
               /\ HasPersisted(i) /\ CollectionOf(i) = c
               /\ \E k \in 1..3 : notificationDocs[c][k] = notification[i]

\* C9: a commit replaces the whole ledger document by the dict the invocation
\* built from its own earlier read: an entry of the stored document that the
\* writer's dict lacks is gone after the commit, so an update committed between
\* the read and the commit of another invocation is lost.
C9_LastWriterReplacesLedger ==
    [][\A i \in Invocations :
          Commits(i) =>
              /\ ledgerDoc'[CollectionOf(i)].data = costsDict[i]
              /\ \A s \in DOMAIN ledgerDoc[CollectionOf(i)].data :
                     s \notin DOMAIN costsDict[i] =>
                         s \notin DOMAIN ledgerDoc'[CollectionOf(i)].data]_vars

\* Two invocations for one project committed notifications of two intervals,
\* both notification documents are there, and the ledger lacks the entry of one.
C9_Witness ==
    \E i, j \in Invocations :
        /\ i # j
        /\ HasPersisted(i) /\ HasPersisted(j)
        /\ CollectionOf(i) = CollectionOf(j)
        /\ notification[i].costIntervalStart # notification[j].costIntervalStart
        /\ Len(notificationDocs[CollectionOf(i)]) = 2
        /\ notification[i].costIntervalStart \notin DOMAIN ledgerDoc[CollectionOf(i)].data
        /\ notification[j].costIntervalStart \in DOMAIN ledgerDoc[CollectionOf(i)].data

\* C10: the billing check is false for a billing info that is empty, lacks
\* billingEnabled or has it false, and true only when the field is there and
\* true; in the first step of an invocation every false result raises the same
\* error and a true result lets the invocation go on.
C10_BillingCheck ==
    [][\A i \in Invocations :
          (Arrives(i) /\ IsWellFormed(notification'[i])) =>
              LET info == billing[notification'[i].budgetDisplayName]
              IN /\ IsBillingEnabled(info) = ConfirmsEnabled(info)
                 /\ ConfirmsEnabled(info) => (pc'[i] = "checked" /\ error'[i] = NoError)
                 /\ ~ConfirmsEnabled(info) =>
                        (pc'[i] = "failed" /\ error'[i] = BillingAlreadyDisabled)]_vars

\* One invocation rejected on billingEnabled false and one rejected on a
\* billing info without the field, with the same error.
C10_Witness ==
    \E i, j \in Invocations :
        /\ pc[i] = "failed" /\ error[i] = BillingAlreadyDisabled
        /\ billing[notification[i].budgetDisplayName] = BillingLinkedClosed
        /\ pc[j] = "failed" /\ error[j] = BillingAlreadyDisabled
        /\ "billingEnabled" \notin DOMAIN billing[notification[j].budgetDisplayName]
        /\ error[i] = error[j]

\* The step in which invocation i calls updateBillingInfo.
CallsDisable(i) == disableCalls'[i] = disableCalls[i] + 1

\* C11: the step that calls updateBillingInfo ends the invocation with an
\* AssertionError exactly if the billing info returned by the call, which is
\* the project's billing info after the call, still has billingAccountName;
\* the invocation ends normally exactly if the field is gone.
C11_DisableAssertsUnlinked ==
    [][\A i \in Invocations :
          CallsDisable(i) =>
              LET after == billing'[notification[i].budgetDisplayName]
              IN IF "billingAccountName" \in DOMAIN after
                 THEN pc'[i] = "failed" /\ error'[i] = AssertionError
                 ELSE pc'[i] = "done" /\ error'[i] = NoError]_vars

\* A disable call that left the billing account linked: the invocation ended
\* with the AssertionError.
C11_Witness ==
    \E i \in Invocations :
        /\ pc[i] = "failed" /\ error[i] = AssertionError
        /\ disableCalls[i] = 1
        /\ "billingAccountName" \in DOMAIN billing[notification[i].budgetDisplayName]

\* The positions of an invocation in the order of the handler.
StepOrder ==
    {<<"idle", "checked">>, <<"checked", "stamped">>, <<"stamped", "fetched">>,
     <<"fetched", "persisted">>, <<"persisted", "done">>}
    \cup {<<from, "failed">> : from \in {"idle", "stamped", "fetched", "persisted"}}

\* The notification of invocation i, as stamped, is a document of its collection.
OwnRecordCommitted(i) ==
    /\ "addedAt" \in DOMAIN notification[i]
    /\ \E k \in DOMAIN notificationDocs[CollectionOf(i)] :
           notificationDocs[CollectionOf(i)][k] = notification[i]

\* C12: an invocation moves through billing check, stamp, ledger fetch,
\* commit and decision in this order.  It builds its dict only in the fetch step, sets its
\* total only after its commit, and calls updateBillingInfo only in the step
\* after its own commit, when its notification document is in the store and
\* its total is not below its budget.  A failure of the ledger read or of the
\* commit ends it with the store error, with no updateBillingInfo call and no
\* change of a billing info.
C12_StepOrder ==
    [][\A i \in Invocations :
          /\ pc'[i] # pc[i] => <<pc[i], pc'[i]>> \in StepOrder
          /\ costsDict'[i] # costsDict[i] => (pc[i] = "stamped" /\ pc'[i] = "fetched")
          /\ total'[i] # total[i] => pc[i] = "persisted"
          /\ CallsDisable(i) =>
                 /\ pc[i] = "persisted"
                 /\ OwnRecordCommitted(i)
                 /\ total'[i] = SumOver(DOMAIN costsDict[i], costsDict[i])
                 /\ total'[i] >= notification[i].budgetAmount
          /\ disableCalls'[i] # disableCalls[i] => CallsDisable(i)
          /\ (pc[i] \in {"stamped", "fetched"} /\ pc'[i] = "failed") =>
                 /\ error'[i] = (IF pc[i] = "stamped" THEN StoreReadError ELSE StoreCommitError)
                 /\ disableCalls'[i] = 0
                 /\ billing' = billing
                 /\ ledgerDoc' = ledgerDoc /\ notificationDocs' = notificationDocs]_vars

\* One invocation whose commit failed with a dict at its budget made no call;
\* another called updateBillingInfo after its commit.
C12_Witness ==
    \E i, j \in Invocations :
        /\ pc[i] = "failed" /\ error[i] = StoreCommitError
        /\ SumOver(DOMAIN costsDict[i], costsDict[i]) >= notification[i].budgetAmount
        /\ disableCalls[i] = 0
        /\ pc[j] = "done" /\ disableCalls[j] = 1
        /\ OwnRecordCommitted(j)
        /\ CollectionOf(i) = CollectionOf(j)

StoreOf(p) == <<ledgerDoc[GetCollectionName(p)], notificationDocs[GetCollectionName(p)]>>

\* C13 as stated: while billing of a project is not confirmed enabled, every
\* notification for it that arrives is rejected with 'Billing already in
\* disabled state' and its ledger and notification documents do not change.
C13_DisabledFreezesStore ==
    [][\A p \in Projects :
          ~ConfirmsEnabled(billing[p]) =>
              /\ \A i \in Invocations :
                     (Arrives(i) /\ IsWellFormed(notification'[i])
                         /\ notification'[i].budgetDisplayName = p) =>
                         (pc'[i] = "failed" /\ error'[i] = BillingAlreadyDisabled)
              /\ StoreOf(p)' = StoreOf(p)]_vars

\* C13: once billing of a project is not confirmed enabled it stays so, and
\* every notification for the project that arrives from then on is rejected
\* with 'Billing already in disabled state'.  The ledger and the notification
\* documents of the project change afterwards only in the commit of an
\* invocation that had passed the billing check before.
C13_DisabledRejectsArrivals ==
    [][\A p \in Projects :
          ~ConfirmsEnabled(billing[p]) =>
              /\ ~ConfirmsEnabled(billing'[p])
              /\ \A i \in Invocations :
                     (Arrives(i) /\ IsWellFormed(notification'[i])
                         /\ notification'[i].budgetDisplayName = p) =>
                         /\ pc'[i] = "failed"
                         /\ error'[i] = BillingAlreadyDisabled
                         /\ StoreOf(p)' = StoreOf(p)
              /\ StoreOf(p)' # StoreOf(p) =>
                     \E i \in Invocations :
                         /\ Commits(i)
                         /\ notification[i].budgetDisplayName = p
                         /\ i \in lateCommits']_vars

\* Billing was disabled by one invocation; a notification for the project that
\* arrived later was rejected and the two documents of the project are as the
\* disabling invocation left them.
C13_Witness ==
    \E i, j \in Invocations :
        /\ j < i
        /\ pc[j] = "done" /\ disableCalls[j] = 1
        /\ billing[notification[j].budgetDisplayName] = BillingUnlinked
        /\ pc[i] = "failed" /\ error[i] = BillingAlreadyDisabled
        /\ notification[i].budgetDisplayName = notification[j].budgetDisplayName
        /\ ledgerDoc[CollectionOf(j)].data = costsDict[j]
        /\ Len(notificationDocs[CollectionOf(j)]) = 2

Quiescent == \A i \in Invocations : pc[i] \notin InProgress

\* Every updateBillingInfo call made for project p unlinked the account.
DisableAlwaysSucceeded(p) ==
    \A i \in Invocations :
        (pc[i] = "failed" /\ error[i] = AssertionError) =>
            notification[i].budgetDisplayName # p

SameBudget(docs) ==
    \A k, m \in DOMAIN docs : docs[k].budgetAmount = docs[m].budgetAmount

\* C14: when no invocation is in progress, a project has at least one
\* persisted notification, all of them carry the same budgetAmount and no
\* updateBillingInfo call for it failed, then billing still enabled implies that
\* the sum of the stored ledger is strictly below that budgetAmount.
C14_EnabledImpliesBelowBudget ==
    \A p \in Projects :
        LET docs == notificationDocs[GetCollectionName(p)]
            stored == ledgerDoc[GetCollectionName(p)].data
        IN (/\ Quiescent
            /\ docs # <<>>
            /\ SameBudget(docs)
            /\ DisableAlwaysSucceeded(p)
            /\ ConfirmsEnabled(billing[p])) =>
               SumOver(DOMAIN stored, stored) < docs[1].budgetAmount

\* Three notifications persisted for a project, no invocation in progress,
\* billing still enabled and the ledger sum below the budget.
C14_Witness ==
    \E p \in Projects :
        LET docs == notificationDocs[GetCollectionName(p)]
            stored == ledgerDoc[GetCollectionName(p)].data
        IN /\ Quiescent
           /\ Len(docs) = 3
           /\ DisableAlwaysSucceeded(p)
           /\ ConfirmsEnabled(billing[p])
           /\ Cardinality(DOMAIN stored) = 2
           /\ SumOver(DOMAIN stored, stored) = docs[1].budgetAmount - 1

\* C15 as stated: no invocation commits its ledger and notification document
\* while billing of its project is not confirmed enabled.
C15_NoCommitAfterDisable ==
    [][\A i \in Invocations :
          Commits(i) => ConfirmsEnabled(billing[notification[i].budgetDisplayName])]_vars

\* C15: an invocation is past the billing check, or commits, while billing of
\* its project is not confirmed enabled only if another invocation for the
\* same project, which ran at the same time, has unlinked the billing account
\* by its own updateBillingInfo call.  An invocation whose billing check finds
\* billing not enabled never commits.
C15_LateCommitOnlyByOverlap ==
    /\ \A i \in Invocations :
           ((pc[i] \in InProgress \/ i \in lateCommits)
               /\ ~ConfirmsEnabled(billing[notification[i].budgetDisplayName])) =>
               /\ billing[notification[i].budgetDisplayName] = BillingUnlinked
               /\ \E j \in Invocations \ {i} :
                      /\ pc[j] = "done" /\ disableCalls[j] = 1
                      /\ notification[j].budgetDisplayName = notification[i].budgetDisplayName
                      /\ OwnRecordCommitted(j)
    /\ \A i \in lateCommits : OwnRecordCommitted(i)
    /\ \A i \in Invocations :
           (pc[i] = "failed" /\ error[i] = BillingAlreadyDisabled) =>
               (i \notin lateCommits /\ "addedAt" \notin DOMAIN notification[i])

\* An invocation committed its ledger and its notification document after
\* another invocation for the project had disabled billing.
C15_Witness ==
    \E i, j \in Invocations :
        /\ i \in lateCommits
        /\ pc[j] = "done" /\ disableCalls[j] = 1
        /\ CollectionOf(i) = CollectionOf(j)
        /\ billing[notification[i].budgetDisplayName] = BillingUnlinked
        /\ notificationDocs[CollectionOf(i)][Len(notificationDocs[CollectionOf(i)])]
               = notification[i]
        /\ ledgerDoc[CollectionOf(i)].data = costsDict[i]

\* Some earlier updateBillingInfo call for project p left the account linked.
DisableFailedBefore(p) ==
    \E i \in Invocations :
        /\ pc[i] = "failed" /\ error[i] = AssertionError
        /\ notification[i].budgetDisplayName = p

\* C16: the step in which the disable call of an invocation fails changes no
\* ledger document and no notification document, the notification document of
\* the invocation stays in the store, and billing of the project is still
\* enabled.  A notification for the project that arrives afterwards while
\* billing is enabled passes the billing check, and an invocation that then
\* compares a total at or above its budget calls updateBillingInfo again.
C16_FailedDisableKeepsState ==
    [][\A i \in Invocations :
          /\ (pc[i] = "persisted" /\ pc'[i] = "failed") =>
                 /\ error'[i] = AssertionError
                 /\ CallsDisable(i)
                 /\ ledgerDoc' = ledgerDoc
                 /\ notificationDocs' = notificationDocs
                 /\ OwnRecordCommitted(i)
                 /\ billing' = billing
                 /\ ConfirmsEnabled(billing'[notification[i].budgetDisplayName])
          /\ (Arrives(i) /\ IsWellFormed(notification'[i])
                 /\ DisableFailedBefore(notification'[i].budgetDisplayName)
                 /\ ConfirmsEnabled(billing[notification'[i].budgetDisplayName])) =>
                 pc'[i] = "checked"
          /\ (pc[i] = "persisted" /\ pc'[i] # "persisted"
                 /\ DisableFailedBefore(notification[i].budgetDisplayName)
                 /\ total'[i] >= notification[i].budgetAmount) =>
                 CallsDisable(i)]_vars

\* The disable call of one invocation failed and its documents stayed; a later
\* notification for the project was handled and its disable call went through.
C16_Witness ==
    \E i, j \in Invocations :
        /\ i < j
        /\ pc[i] = "failed" /\ error[i] = AssertionError
        /\ disableCalls[i] = 1
        /\ OwnRecordCommitted(i)
        /\ pc[j] = "done" /\ disableCalls[j] = 1
        /\ CollectionOf(i) = CollectionOf(j)
        /\ notification[i].costIntervalStart \in DOMAIN costsDict[j]
        /\ total[j] >= notification[j].budgetAmount
        /\ billing[notification[j].budgetDisplayName] = BillingUnlinked

\* The project of the invocation that takes a step, if its payload names one.
NamesProject(n) == "budgetDisplayName" \in DOMAIN n

\* C17: the collection of project p is named 'budget-notifications-' and p
\* when no prefix is configured, and two projects never share a name.  A step
\* of an invocation for project p leaves the billing info, the ledger document
\* and the notification documents of every other project as they are, and the
\* dict it builds in the fetch step holds the entries of p's ledger document
\* and its own entry, nothing else.  A step of an invocation whose payload
\* names no project changes no project's data.
C17_ProjectIsolation ==
    [][/\ \A p, q \in Projects :
             /\ GetCollectionName(p) = "budget-notifications-" \o p
             /\ p # q => GetCollectionName(p) # GetCollectionName(q)
       /\ \A i \in Invocations :
             pc'[i] # pc[i] =>
                 IF NamesProject(notification'[i])
                 THEN LET p == notification'[i].budgetDisplayName
                          own == ledgerDoc[GetCollectionName(p)].data
                      IN /\ \A q \in Projects \ {p} :
                                /\ billing'[q] = billing[q]
                                /\ StoreOf(q)' = StoreOf(q)
                         /\ (pc[i] = "stamped" /\ pc'[i] = "fetched") =>
                                /\ DOMAIN costsDict'[i]
                                       = DOMAIN own \cup {notification[i].costIntervalStart}
                                /\ \A s \in DOMAIN own \ {notification[i].costIntervalStart} :
                                       costsDict'[i][s] = own[s]
                 ELSE /\ billing' = billing
                      /\ ledgerDoc' = ledgerDoc
                      /\ notificationDocs' = notificationDocs]_vars

\* Two projects, each with one persisted notification: each collection holds
\* the ledger and the document of its own project; billing of one project was
\* disabled by a later invocation, billing of the other is still enabled.
C17_Witness ==
    \E i, j \in Invocations :
        /\ HasPersisted(i) /\ HasPersisted(j)
        /\ notification[i].budgetDisplayName # notification[j].budgetDisplayName
        /\ ledgerDoc[CollectionOf(j)].data = costsDict[j]
        /\ notificationDocs[CollectionOf(j)] = <<notification[j]>>
        /\ Len(notificationDocs[CollectionOf(i)]) = 2
        /\ notificationDocs[CollectionOf(i)][1] = notification[i]
        /\ billing[notification[i].budgetDisplayName] = BillingUnlinked
        /\ billing[notification[j].budgetDisplayName] = BillingLinked

====
